---- MODULE Spec2Model ----
(***************************************************************************)
(* Maintenance request manager of the fc agent                             *)
(* (fc/maintenance/request.py, fc/maintenance/reqmanager.py).              *)
(*                                                                         *)
(* A request is a record; the manager's collection is a function from      *)
(* request ids to requests plus the insertion order of the dict; the spool *)
(* directory is a function from ids to the snapshot last renamed into      *)
(* place.  Time is a counter of hours.                                     *)
(***************************************************************************)
EXTENDS Integers, Sequences, FiniteSets, TLC

\* ------------------------------------------------------------------ bounds
\* The clock runs from 0 to MaxTime.
MaxTime == 1
\* Request.execute() calls in one behaviour.
MaxRuns == 2
MaxDepth == 2

\* --------------------------------------------------------------- constants
\* Request.MAX_RETRIES
MAX_RETRIES == 48
\* EX_SOFTWARE, the return code recorded when activity.run() raises
EX_SOFTWARE == 70
\* fc.maintenance.state: exit codes with a meaning
EXIT_SUCCESS == 0
EXIT_POSTPONE == 69
EXIT_TEMPFAIL == 75
\* an exit code without a reserved meaning
EXIT_OTHER == 1
\* Activity.returncode before the activity ever ran (Python's None)
RC_NONE == -1

\* fc.maintenance.state.State
States ==
    {"pending", "due", "running", "success", "tempfail", "postpone",
     "retrylimit", "error", "deleted"}

\* fc.maintenance.state.ARCHIVE
ARCHIVE == {"success", "error", "retrylimit", "deleted"}

\* fc.maintenance.state.evaluate_state: total, zero is success, two reserved
\* codes are tempfail and postpone, everything else (None too) is error.
evaluate_state(returncode) ==
    IF returncode = EXIT_SUCCESS THEN "success"
    ELSE IF returncode = EXIT_TEMPFAIL THEN "tempfail"
    ELSE IF returncode = EXIT_POSTPONE THEN "postpone"
    ELSE "error"

\* Request ids are short strings; a sequence of digits keeps prefixes and
\* the lexicographic order of str.
LocalIds == {<<1, 1>>, <<1, 2>>}
ForeignIds == {<<2, 1>>}
AllIds == LocalIds \cup ForeignIds

\* ------------------------------------------------------------- time values
\* next_due is None, a datetime with tzinfo, or a datetime without.
None == [kind |-> "none", t |-> 0]
Aware(t) == [kind |-> "aware", t |-> t]
Naive(t) == [kind |-> "naive", t |-> t]

\* An ISO 8601 literal as the directory sends it: wall-clock hour and an
\* offset suffix ("" none, "Z", "+01:00").
IsoLiterals == [kind : {"iso"}, t : 1..MaxTime, off : {"", "Z", "+01:00"}]

\* iso8601.parse_date(literal): the instant in UTC; a literal without an
\* offset is read as UTC (default_timezone=UTC).
parse_date(lit) ==
    Aware(IF lit.off = "+01:00" THEN lit.t - 1 ELSE lit.t)

\* bool(next_due): None is false, every datetime is true.
Truthy(d) == d.kind # "none"

\* ----------------------------------------------------------------- Attempt
\* Attempt.record(activity): finish time, outcome and duration are set.
AttemptRecord(returncode) ==
    [returncode |-> returncode, stderr |-> "", finished |-> TRUE,
     duration |-> TRUE]

\* except-branch of Request.execute: only returncode and stderr are set.
AttemptRaised ==
    [returncode |-> EX_SOFTWARE, stderr |-> "exception", finished |-> FALSE,
     duration |-> FALSE]

\* History of a request that failed temporarily n times in earlier sessions.
PastAttempts(n) == [i \in 1..n |-> AttemptRecord(EXIT_TEMPFAIL)]

\* ----------------------------------------------------------------- Request
\* Request(activity, estimate, comment): state pending, no due date, no
\* attempts; the activity has not run.
NewRequest ==
    [state |-> "pending", next_due |-> None, attempts |-> <<>>,
     rc |-> RC_NONE, comment |-> "", estimate |-> 30, added_at |-> None,
     last_scheduled_at |-> None]

\* update_state() that makes a request due whatever its state
update_state_due_any_state(r, utcnow) ==
    LET s1 == IF Truthy(r.next_due) /\ utcnow >= r.next_due.t
              THEN "due" ELSE r.state
    IN [r EXCEPT !.state =
            IF Len(r.attempts) > MAX_RETRIES THEN "retrylimit" ELSE s1]

\* update_state() without the retry ceiling
update_state_no_ceiling(r, utcnow) ==
    [r EXCEPT !.state =
        IF r.state \in {"pending", "postpone"} /\ Truthy(r.next_due)
           /\ utcnow >= r.next_due.t
        THEN "due" ELSE r.state]

\* Request.update_state: the request after the call (its state is the
\* return value).
update_state(r, utcnow) ==
    LET s1 == IF r.state \in {"pending", "postpone"} /\ Truthy(r.next_due)
                 /\ utcnow >= r.next_due.t
              THEN "due" ELSE r.state
    IN [r EXCEPT !.state =
            IF Len(r.attempts) > MAX_RETRIES THEN "retrylimit" ELSE s1]

\* update_due() that always reports a change
update_due_always_changed(r, due, utcnow) ==
    LET nd == IF due.kind = "none" THEN None
              ELSE IF due.kind = "iso" THEN parse_date(due)
              ELSE due
        r1 == [r EXCEPT !.next_due = nd]
    IN IF Truthy(nd) /\ nd.kind = "naive"
       THEN [req |-> r1, changed |-> FALSE, raised |-> TRUE]
       ELSE [req |-> update_state(r1, utcnow), changed |-> TRUE,
             raised |-> FALSE]

\* Request.update_due(due): due is None, a datetime or an ISO literal.
\* Gives the request after the call, the return value and whether the
\* TypeError was raised (next_due is assigned before the check).
update_due(r, due, utcnow) ==
    LET nd == IF due.kind = "none" THEN None
              ELSE IF due.kind = "iso" THEN parse_date(due)
              ELSE due
        r1 == [r EXCEPT !.next_due = nd]
    IN IF Truthy(nd) /\ nd.kind = "naive"
       THEN [req |-> r1, changed |-> FALSE, raised |-> TRUE]
       ELSE [req |-> update_state(r1, utcnow), changed |-> nd # r.next_due,
             raised |-> FALSE]

\* str.startswith that takes the whole id only
StartsWithWhole(id, prefix) == id = prefix

\* str.startswith on ids
StartsWith(id, prefix) ==
    /\ Len(prefix) <= Len(id)
    /\ SubSeq(id, 1, Len(prefix)) = prefix

\* str.__lt__ on ids: lexicographic
RECURSIVE StrLess(_, _)
StrLess(a, b) ==
    IF b = <<>> THEN FALSE
    ELSE IF a = <<>> THEN TRUE
    ELSE IF Head(a) # Head(b) THEN Head(a) < Head(b)
    ELSE StrLess(Tail(a), Tail(b))

\* Request.__lt__ that compares the ids only
ReqLessById(reqs, a, b) == StrLess(a, b)

\* Request.__eq__: objects of class Request with the same id, whatever
\* their other attributes are.  x and y are <<id, attributes>>.
ReqEq(x, y) == x[1] = y[1]

\* Request.__lt__
ReqLess(reqs, a, b) ==
    IF Truthy(reqs[a].next_due) /\ Truthy(reqs[b].next_due)
    THEN reqs[a].next_due.t < reqs[b].next_due.t
    ELSE IF Truthy(reqs[a].next_due) THEN TRUE
    ELSE IF Truthy(reqs[b].next_due) THEN FALSE
    ELSE StrLess(a, b)

\* One step of sorted(): x goes before the first element it is less than,
\* so equal elements keep their order (the sort is stable).
RECURSIVE Insert(_, _, _)
Insert(reqs, x, s) ==
    IF s = <<>> THEN <<x>>
    ELSE IF ReqLess(reqs, x, Head(s)) THEN <<x>> \o s
    ELSE <<Head(s)>> \o Insert(reqs, x, Tail(s))

\* sorted(requests) with Request.__lt__
RECURSIVE sorted(_, _)
sorted(reqs, s) ==
    IF s = <<>> THEN <<>>
    ELSE Insert(reqs, s[Len(s)], sorted(reqs, SubSeq(s, 1, Len(s) - 1)))

\* runnable() without the sort: due and tempfail requests in dict order
runnable_unsorted(reqs, order, utcnow) ==
    LET refreshed == [id \in DOMAIN reqs |-> update_state(reqs[id], utcnow)]
        IsRunning(id) == refreshed[id].state = "running"
        IsDue(id) == refreshed[id].state \in {"due", "tempfail"}
    IN [reqs |-> refreshed,
        seq |-> SelectSeq(order, IsRunning) \o SelectSeq(order, IsDue)]

\* ReqManager.runnable, consumed to the end: the collection after the
\* update_state calls and the ids in the order they are yielded.
runnable(reqs, order, utcnow) ==
    LET refreshed == [id \in DOMAIN reqs |-> update_state(reqs[id], utcnow)]
        IsRunning(id) == refreshed[id].state = "running"
        IsDue(id) == refreshed[id].state \in {"due", "tempfail"}
    IN [reqs |-> refreshed,
        seq |-> SelectSeq(order, IsRunning)
                \o sorted(refreshed, SelectSeq(order, IsDue))]

\* ------------------------------------------------------------ Request.save
\* What a save() can do: "ok"; "fail" raises before the rename, the
\* snapshot on disk stays; "fail_dump" raises in activity.dump(), after the
\* rename.
SaveOutcomes == {"ok", "fail", "fail_dump"}

\* Request.save: the snapshot on disk afterwards.
save(snapshot, r, io) == IF io = "fail" THEN snapshot ELSE r

\* --------------------------------------------------------- Request.execute
\* The outer handler of Request.execute that lets the exception through.
ExecuteCatchesNothing(harness_failed) == FALSE

\* "except Exception" around the body of Request.execute: whether a failure
\* of the harness is caught.
ExecuteCatches(harness_failed) == harness_failed

\* Request.execute up to the call of activity.run(): state running, save,
\* enter the request directory.  When the save or the chdir raises, the
\* handler sets state error and the final save is tried; the activity is
\* not run.
ExecuteBegin(r, snapshot, io1, cd_fails, io2) ==
    LET r1 == [r EXCEPT !.state = "running"]
        d1 == save(snapshot, r1, io1)
        failed == io1 # "ok" \/ cd_fails
        r2 == [r1 EXCEPT !.state = "error"]
    IN IF ~failed
       THEN [req |-> r1, disk |-> d1, started |-> TRUE, harness |-> FALSE,
             propagated |-> FALSE]
       ELSE IF ExecuteCatches(failed)
       THEN [req |-> r2, disk |-> save(d1, r2, io2), started |-> FALSE,
             harness |-> TRUE, propagated |-> FALSE]
       ELSE [req |-> r1, disk |-> d1, started |-> FALSE, harness |-> TRUE,
             propagated |-> TRUE]

\* Failures of the harness after activity.run(): none, the chdir back to
\* the old directory, the computation of the new state.
LateFailures == {"none", "chdir_back", "evaluate"}

\* Request.execute from activity.run() on.  run is "ok" (the activity
\* returned and set its returncode) or "raise" (run() raised; the activity
\* keeps the returncode it had).  The new state is computed from the
\* activity's returncode, not from the attempt's.
ExecuteFinish(r, snapshot, run, returncode, late, io2) ==
    LET rc1 == IF run = "ok" THEN returncode ELSE r.rc
        attempt == IF run = "ok" THEN AttemptRecord(returncode)
                   ELSE AttemptRaised
        r1 == [r EXCEPT !.rc = rc1]
        r2 == IF late = "chdir_back" THEN r1
              ELSE [r1 EXCEPT !.attempts = Append(@, attempt)]
        failed == late # "none"
        r3 == [r2 EXCEPT !.state =
                  IF failed /\ ExecuteCatches(failed) THEN "error"
                  ELSE IF failed THEN @
                  ELSE evaluate_state(rc1)]
        caught == ~failed \/ ExecuteCatches(failed)
    IN [req |-> r3,
        disk |-> IF caught THEN save(snapshot, r3, io2) ELSE snapshot,
        harness |-> failed, propagated |-> ~caught]

\* ------------------------------------------------------- ReqManager.reboot
\* reboot() that prefers the warm reboot
reboot_warm_first(requested_reboots) ==
    IF "WARM" \in requested_reboots THEN "reboot"
    ELSE IF "COLD" \in requested_reboots THEN "poweroff"
    ELSE "none"

\* ReqManager.reboot: the command it runs ("none": it returns False).
reboot(requested_reboots) ==
    IF "COLD" \in requested_reboots THEN "poweroff"
    ELSE IF "WARM" \in requested_reboots THEN "reboot"
    ELSE "none"

\* ================================================================== state
VARIABLES
    now,                \* utcnow(), in hours
    requests,           \* ReqManager.requests: id -> Request
    order,              \* insertion order of the ReqManager.requests dict
    disk,               \* requests/<id>/request.yaml: id -> snapshot
    pc,                 \* where the orchestrator process is
    batch,              \* execute(): requests of the batch not yet finished
    requested_reboots,  \* execute(): the set of the same name
    ran,                \* execute(): what each finished request of the batch did
    in_service,         \* last mark_node_service_status sent to the directory
    reboot_cmd,         \* command issued by reboot() in the last execute()
    last,               \* the last operation, its inputs and remote calls
    runs,               \* Request.execute() calls so far
    archive,            \* archive/<id>: id -> snapshot and error note
    lockfile,           \* ReqManager.lockfile is open, the flock is held
    depth,              \* "with" blocks of the manager that are entered
    other               \* session of another process on the same spool

vars ==
    <<now, requests, order, disk, pc, batch, requested_reboots, ran,
      in_service, reboot_cmd, last, runs, archive, lockfile, depth, other>>

mgr == <<requests, order, disk>>
lck == <<lockfile, depth, other>>

\* The process is alive and inside its session.
Alive(p) == p \in {"idle", "batch", "running"}

\* ReqManager.__exit__ when an operation ends the session (it raised, the
\* process was killed, the machine goes down): the lock is released;
\* otherwise the lock stays as it is.
LockFollows ==
    /\ lockfile' = (lockfile /\ Alive(pc'))
    /\ depth' = IF Alive(pc') THEN depth ELSE 0
    /\ other' = other

\* require_lock: the assertion on self.lockfile
require_lock(file) == file
exe == <<batch, requested_reboots, ran, reboot_cmd>>

\* Record of an operation: op names it; id is the request it was about,
\* keys the ids of the directory's response, endm the argument of
\* end_maintenance (id and result), postponed the ids sent to
\* postpone_maintenance, harness whether the harness of Request.execute
\* failed, run what activity.run() did, ran what the requests of the
\* finished batch did, all the run_all_now of execute(), arg the argument
\* of add() or delete().
Op(name) ==
    [op |-> name, id |-> <<>>, keys |-> {}, endm |-> {}, postponed |-> {},
     harness |-> FALSE, run |-> "none", ran |-> <<>>, all |-> FALSE,
     arg |-> [id |-> <<>>, comment |-> "", skip |-> FALSE],
     called |-> FALSE, result |-> FALSE, response |-> <<>>]

\* All orders glob.glob can list a set of directories in.
Orders(S) ==
    {s \in [1..Cardinality(S) -> S] : \A i, j \in 1..Cardinality(S) :
        i # j => s[i] # s[j]}

\* Snapshots that earlier sessions can have left in the spool: a request
\* just added, and a request that failed temporarily MAX_RETRIES times.
SpoolSnapshots ==
    {NewRequest,
     [NewRequest EXCEPT !.state = "tempfail", !.next_due = Aware(1),
                        !.attempts = PastAttempts(MAX_RETRIES),
                        !.rc = EXIT_TEMPFAIL]}

\* ReqManager.__init__ and __enter__: the spool holds the requests ids
\* with snapshots of the given set, scan() has loaded them, the node is in
\* service.
InitWith(ids, snapshots) ==
    /\ now = 0
    /\ disk \in [ids -> snapshots]
    /\ requests = disk
    /\ order \in Orders(ids)
    /\ pc = "idle"
    /\ batch = <<>>
    /\ requested_reboots = {}
    /\ ran = <<>>
    /\ in_service = "in"
    /\ reboot_cmd = "none"
    /\ last = Op("enter")
    /\ runs = 0
    /\ archive = <<>>
    /\ lockfile = TRUE
    /\ depth = 1
    /\ other = "out"

\* Time passes between operations.
Tick ==
    /\ pc = "idle"
    /\ now < MaxTime
    /\ now' = now + 1
    /\ UNCHANGED <<mgr, pc, exe, in_service, last, runs, archive, lck>>

\* --------------------------------------------------------------- schedule
\* What the directory answers per id: {"time": None} or an ISO literal,
\* without an offset or, for the first hour, with +01:00.
ResponseTimes ==
    {None} \cup {l \in IsoLiterals : l.off = "" \/ (l.off = "+01:00" /\ l.t = 1)}

\* Responses of schedule_maintenance: any set of ids, known here (local) or
\* not (foreign; their times are never read).
Responses(local, foreign) ==
    UNION {{[id \in K \cup F |-> IF id \in K THEN f[id] ELSE None] :
               f \in [K -> ResponseTimes]} :
           K \in SUBSET local, F \in SUBSET foreign}

\* schedule() that reports the local ids missing from the response
disappeared_local_missing(result, reqs) == DOMAIN reqs \ DOMAIN result

\* schedule(): the keys of the response that raise KeyError on
\* self.requests[key].
disappeared(result, reqs) == DOMAIN result \ DOMAIN reqs

\* ReqManager.schedule
Schedule(result) ==
    /\ pc = "idle"
    /\ require_lock(lockfile)
    /\ LET upd(id) == update_due(requests[id], result[id], now)
           req(id) == IF upd(id).changed
                      THEN [upd(id).req EXCEPT
                              !.last_scheduled_at = Aware(now)]
                      ELSE upd(id).req
           gone == disappeared(result, requests)
       IN /\ requests' =
                [id \in DOMAIN requests |->
                    IF id \in DOMAIN result THEN req(id)
                    ELSE requests[id]]
          /\ disk' =
                [id \in DOMAIN disk |->
                    IF id \in DOMAIN result /\ id \in DOMAIN requests
                       /\ upd(id).changed
                    THEN save(disk[id], req(id), "ok")
                    ELSE disk[id]]
          /\ last' = [Op("schedule") EXCEPT
                        !.keys = DOMAIN result,
                        !.response = result,
                        !.endm = {<<id, "deleted">> : id \in gone}]
    /\ UNCHANGED <<now, order, pc, exe, in_service, runs, archive, lck>>

\* ---------------------------------------------------------------- execute
\* What the commands of a maintenance-enter or maintenance-leave group do:
\* all exit with 0, or one does not and subprocess.run raises.
HookOutcomes == {"ok", "command_fails"}

\* ReqManager.enter_maintenance: the node is marked out of service, then
\* the commands run.
enter_maintenance(status, hook) ==
    [status |-> "out", raised |-> hook # "ok"]

\* ReqManager.leave_maintenance: the commands run, then the node is marked
\* in service.
leave_maintenance(status, hook) ==
    [status |-> IF hook = "ok" THEN "in" ELSE status, raised |-> hook # "ok"]

\* ReqManager.execute up to the loop: the runnable requests are determined;
\* without any, leave_maintenance is called and execute returns, otherwise
\* enter_maintenance is called.
ExecuteStart(run_all_now, hook) ==
    /\ pc = "idle"
    /\ require_lock(lockfile)
    /\ LET rn == runnable(requests, order, now)
           runnable_requests == IF run_all_now THEN order ELSE rn.seq
           reqs == IF run_all_now THEN requests ELSE rn.reqs
       IN /\ runs + Len(runnable_requests) <= MaxRuns
          /\ requests' = reqs
          /\ requested_reboots' = {}
          /\ ran' = <<>>
          /\ reboot_cmd' = "none"
          /\ IF runnable_requests = <<>>
             THEN LET lv == leave_maintenance(in_service, hook)
                  IN /\ in_service' = lv.status
                     /\ pc' = IF lv.raised THEN "raised" ELSE "idle"
                     /\ batch' = <<>>
                     /\ last' = [Op("execute_empty") EXCEPT !.all = run_all_now]
             ELSE LET en == enter_maintenance(in_service, hook)
                  IN /\ in_service' = en.status
                     /\ pc' = IF en.raised THEN "raised" ELSE "batch"
                     /\ batch' = IF en.raised THEN <<>> ELSE runnable_requests
                     /\ last' = [Op("execute_start") EXCEPT !.all = run_all_now]
    /\ LockFollows
    /\ UNCHANGED <<now, order, disk, runs, archive>>

\* A loop that ends the batch at a request in state error
loop_rest_stop_on_error(state, rest) ==
    IF state = "error" THEN <<>> ELSE rest

\* "for req in runnable_requests": the requests still to be executed after
\* req.execute() has returned with the request in the given state.
loop_rest(state, rest) == rest

\* The loop of execute() reaches req.execute() for the next request, which
\* runs up to the call of activity.run().
RequestExecuteBegin(io1, cd_fails, io2) ==
    /\ pc = "batch"
    /\ batch # <<>>
    /\ LET id == Head(batch)
           res == ExecuteBegin(requests[id], disk[id], io1, cd_fails, io2)
       IN /\ requests' = [requests EXCEPT ![id] = res.req]
          /\ disk' = [disk EXCEPT ![id] = res.disk]
          /\ last' = [Op("request_execute") EXCEPT
                        !.id = id, !.harness = res.harness]
          /\ IF res.propagated
             THEN /\ pc' = "raised"
                  /\ UNCHANGED <<batch, ran>>
             ELSE IF res.started
             THEN /\ pc' = "running"
                  /\ UNCHANGED <<batch, ran>>
             ELSE /\ pc' = "batch"
                  /\ batch' = loop_rest(res.req.state, Tail(batch))
                  /\ ran' = Append(ran, [id |-> id, state |-> res.req.state,
                                         reboot_needed |-> "none"])
    /\ runs' = runs + 1
    /\ LockFollows
    /\ UNCHANGED <<now, order, requested_reboots, reboot_cmd, in_service,
                   archive>>

\* Exit codes an activity ends with.
ExitCodes == {EXIT_SUCCESS, EXIT_POSTPONE, EXIT_TEMPFAIL, EXIT_OTHER}

\* Activity.reboot_needed after a run
RebootTypes == {"none", "WARM", "COLD"}

\* The loop body of execute() after req.execute(): the reboot need of a
\* successful request is added to requested_reboots.
collect_reboot(state, reboot_needed, reboots) ==
    IF state = "success" THEN reboots \cup {reboot_needed} ELSE reboots

\* activity.run() ends and req.execute() runs to its end; the loop of
\* execute() records the reboot the request needs.
RequestExecuteFinish(run, returncode, late, io2, reboot_needed) ==
    /\ pc = "running"
    /\ LET id == Head(batch)
           res == ExecuteFinish(requests[id], disk[id], run, returncode,
                                late, io2)
       IN /\ requests' = [requests EXCEPT ![id] = res.req]
          /\ disk' = [disk EXCEPT ![id] = res.disk]
          /\ last' = [Op("request_execute") EXCEPT
                        !.id = id, !.harness = res.harness, !.run = run]
          /\ IF res.propagated
             THEN /\ pc' = "raised"
                  /\ UNCHANGED <<batch, ran, requested_reboots>>
             ELSE /\ pc' = "batch"
                  /\ batch' = loop_rest(res.req.state, Tail(batch))
                  /\ requested_reboots' =
                        collect_reboot(res.req.state, reboot_needed,
                                       requested_reboots)
                  /\ ran' = Append(ran, [id |-> id, state |-> res.req.state,
                                         reboot_needed |-> reboot_needed])
    /\ LockFollows
    /\ UNCHANGED <<now, order, reboot_cmd, in_service, runs, archive>>

\* execute() that leaves maintenance whether or not it reboots
leave_after_batch_always(cmd) == TRUE

\* execute() after the loop: leave_maintenance is called when reboot()
\* returned False.
leave_after_batch(cmd) == cmd = "none"

\* ReqManager.execute after the loop: reboot() runs its command (cmd_ok: it
\* exits with 0), or leave_maintenance is called.
ExecuteEnd(hook, cmd_ok) ==
    /\ pc = "batch"
    /\ batch = <<>>
    /\ LET cmd == reboot(requested_reboots)
           lv == leave_maintenance(in_service, hook)
       IN /\ reboot_cmd' = cmd
          /\ IF cmd # "none" /\ ~cmd_ok
             THEN pc' = "raised" /\ in_service' = in_service
             ELSE IF leave_after_batch(cmd)
             THEN /\ in_service' = lv.status
                  /\ pc' = IF lv.raised THEN "raised"
                           ELSE IF cmd = "none" THEN "idle" ELSE "rebooted"
             ELSE /\ in_service' = in_service
                  /\ pc' = "rebooted"
    /\ requested_reboots' = {}
    /\ ran' = <<>>
    /\ last' = [Op("execute_end") EXCEPT !.ran = ran]
    /\ LockFollows
    /\ UNCHANGED <<now, mgr, batch, runs, archive>>

\* The orchestrator process is killed during a batch: what it held in
\* memory is gone, the spool stays.
Kill ==
    /\ pc \in {"batch", "running"}
    /\ pc' = "down"
    /\ requests' = <<>>
    /\ order' = <<>>
    /\ batch' = <<>>
    /\ requested_reboots' = {}
    /\ ran' = <<>>
    /\ last' = [Op("kill") EXCEPT
                  !.id = IF pc = "running" THEN Head(batch) ELSE <<>>]
    /\ LockFollows
    /\ UNCHANGED <<now, disk, in_service, reboot_cmd, runs, archive>>

\* Request.load: the snapshot as an object (timestamps get UTC if they
\* have no time zone).
load(snapshot) ==
    [snapshot EXCEPT !.next_due =
        IF @.kind = "naive" THEN Aware(@.t) ELSE @]

\* A request.yaml that yaml.load or Request.load fails on.
Corrupt == [NewRequest EXCEPT !.state = "garbage"]

\* Request.load returns for this snapshot.
Loadable(snapshot) == snapshot.state \in States

\* Restriction of a function to a set
Restrict(f, S) == [x \in S |-> f[x]]

\* The flock of another session is in the way.
flock_blocks(o) == o = "in"

\* scan() without the handler around Request.load: the first directory
\* that fails to load ends the scan with its exception.
scan_without_handler(spool, arch, listing) ==
    LET IsGood(id) == Loadable(spool[id])
        IsBad(id) == ~Loadable(spool[id])
        bad == SelectSeq(listing, IsBad)
        Before(id) == \A k \in 1..Len(listing) :
                         listing[k] = id =>
                            \A h \in 1..k : IsGood(listing[h])
        seen == SelectSeq(listing, Before)
        ids == {seen[k] : k \in 1..Len(seen)}
    IN [requests |-> [id \in ids |-> load(spool[id])],
        order |-> seen,
        disk |-> spool,
        archive |-> arch,
        raised |-> bad # <<>>]

\* ReqManager.scan: every directory of requests/ is loaded in the order
\* glob lists them; one that fails to load gets the error note and is
\* renamed into archive/.  raised: the rename found archive/<id> in its
\* way.
scan(spool, arch, listing) ==
    LET good == {id \in DOMAIN spool : Loadable(spool[id])}
        bad == DOMAIN spool \ good
        IsGood(id) == id \in good
    IN [requests |-> [id \in good |-> load(spool[id])],
        order |-> SelectSeq(listing, IsGood),
        disk |-> Restrict(spool, good),
        archive |->
            [id \in DOMAIN arch \cup bad |->
                IF id \in DOMAIN arch THEN arch[id]
                ELSE [snap |-> spool[id], note |-> TRUE]],
        raised |-> bad \cap DOMAIN arch # {}]

\* A new invocation of the agent: ReqManager.__enter__ takes the lock and
\* calls scan().
Enter(listing) ==
    /\ pc \in {"idle", "down", "rebooted", "raised"}
    /\ ~flock_blocks(other)
    /\ listing \in Orders(DOMAIN disk)
    /\ LET sc == scan(disk, archive, listing)
       IN /\ pc' = IF sc.raised THEN "raised" ELSE "idle"
          /\ requests' = sc.requests
          /\ order' = sc.order
          /\ disk' = sc.disk
          /\ archive' = sc.archive
          /\ lockfile' = ~sc.raised
          /\ depth' = IF sc.raised THEN 0 ELSE 1
    /\ batch' = <<>>
    /\ requested_reboots' = {}
    /\ ran' = <<>>
    /\ reboot_cmd' = "none"
    /\ last' = Op("enter")
    /\ UNCHANGED <<now, in_service, runs, other>>

\* --------------------------------------------------------------- postpone
\* postpone_by of the estimate itself
postpone_by_estimate(estimate) == estimate

\* The postpone_by sent for a request: 2 * int(req.estimate)
postpone_by(estimate) == 2 * estimate

\* postpone() that clears and saves the due dates before it calls the
\* directory
postpone_changes_before_call == TRUE

\* ReqManager.postpone: directory.postpone_maintenance is called before the
\* loop that clears and saves the due dates.
postpone_changes_first == FALSE

\* ReqManager.postpone: last.postponed is the dict sent to
\* postpone_maintenance, last.called whether it was called at all; remote is
\* what the call does, "fail" when it raises.
Postpone(remote) ==
    /\ pc = "idle"
    /\ require_lock(lockfile)
    /\ LET postponed == {id \in DOMAIN requests :
                            requests[id].state = "postpone"}
           upd(id) == update_due(requests[id], None, now).req
           raises == postponed # {} /\ remote = "fail"
           done == ~raises \/ postpone_changes_first
       IN /\ requests' =
                [id \in DOMAIN requests |->
                    IF id \in postponed /\ done THEN upd(id)
                    ELSE requests[id]]
          /\ disk' =
                [id \in DOMAIN disk |->
                    IF id \in postponed /\ done
                    THEN save(disk[id], upd(id), "ok")
                    ELSE disk[id]]
          /\ pc' = IF raises THEN "raised" ELSE "idle"
          /\ last' = [Op("postpone") EXCEPT
                        !.postponed =
                            {<<id, postpone_by(requests[id].estimate)>> :
                                id \in postponed},
                        !.called = postponed # {}]
    /\ LockFollows
    /\ UNCHANGED <<now, order, exe, in_service, runs, archive>>

\* ---------------------------------------------------------------- archive
\* Request.duration: the duration of the last attempt, "None" without an
\* attempt or when the attempt recorded none.
duration(r) ==
    IF r.attempts = <<>> THEN "None"
    ELSE IF r.attempts[Len(r.attempts)].duration THEN "seconds" ELSE "None"

\* req.save() of a request of the collection: its directory is the one in
\* requests/ unless archive() has moved it in this session (req.dir).
SaveIn(spool, id, r) ==
    IF id \in DOMAIN spool THEN [spool EXCEPT ![id] = save(@, r, "ok")]
    ELSE spool

SaveInArchive(spool, arch, id, r) ==
    IF id \in DOMAIN spool THEN arch
    ELSE [arch EXCEPT ![id].snap = save(@, r, "ok")]

\* ReqManager.archive: directory.end_maintenance is called before the loop
\* that moves and saves the requests.
archive_moves_first == FALSE

\* ReqManager.archive: last.endm is the dict sent to end_maintenance,
\* last.called whether it was called; remote is what the call does, "fail"
\* when it raises.  self.requests is not touched.  The directory of a
\* request that an archive() of this session has moved already is renamed
\* onto itself.
Archive(remote) ==
    /\ pc = "idle"
    /\ require_lock(lockfile)
    /\ LET archived == {id \in DOMAIN requests :
                           requests[id].state \in ARCHIVE}
           raises == archived # {} /\ remote = "fail"
           moved == IF ~raises \/ archive_moves_first THEN archived ELSE {}
       IN /\ disk' = Restrict(disk, DOMAIN disk \ moved)
          /\ archive' =
                [id \in DOMAIN archive \cup moved |->
                    IF id \in moved
                    THEN [snap |-> requests[id],
                          note |-> id \in DOMAIN archive /\ archive[id].note]
                    ELSE archive[id]]
          /\ pc' = IF raises THEN "raised" ELSE "idle"
          /\ last' = [Op("archive") EXCEPT
                        !.endm = {<<id, requests[id].state,
                                    duration(requests[id])>> :
                                    id \in archived},
                        !.called = archived # {}]
    /\ LockFollows
    /\ UNCHANGED <<now, requests, order, exe, in_service, runs>>

\* ----------------------------------------------------------------- delete
Prefixes == {<<>>, <<1>>, <<1, 1>>, <<1, 2>>, <<2>>}

\* ReqManager.delete: the first request of the dict whose id starts with
\* reqid gets state deleted and is saved.
Delete(reqid) ==
    /\ pc = "idle"
    /\ require_lock(lockfile)
    /\ LET hits == SelectSeq(order, LAMBDA id : StartsWith(id, reqid))
       IN IF hits = <<>>
          THEN /\ UNCHANGED <<requests, disk, archive>>
               /\ last' = [Op("delete") EXCEPT !.arg.id = reqid]
          ELSE LET id == Head(hits)
                   r == [requests[id] EXCEPT !.state = "deleted"]
               IN /\ requests' = [requests EXCEPT ![id] = r]
                  /\ disk' = SaveIn(disk, id, r)
                  /\ archive' = SaveInArchive(disk, archive, id, r)
                  /\ last' = [Op("delete") EXCEPT
                                !.id = id, !.arg.id = reqid]
    /\ UNCHANGED <<now, order, pc, exe, in_service, runs, lck>>

\* -------------------------------------------------------------------- add
\* Comments of requests; the empty one counts as no comment.
Comments == {"", "update"}

\* find_by_comment() that finds nothing
find_by_comment_none(reqs, ord, comment) == <<>>

\* ReqManager.find_by_comment: the id of the first request of the dict with
\* this comment, <<>> for None.
find_by_comment(reqs, ord, comment) ==
    LET hits == SelectSeq(ord, LAMBDA id : reqs[id].comment = comment)
    IN IF hits = <<>> THEN <<>> ELSE Head(hits)

\* f with x mapped to v, x in the domain or not
Put(f, x, v) == [y \in DOMAIN f \cup {x} |-> IF y = x THEN v ELSE f[y]]

\* ReqManager.add of a new Request with this comment; its id is a new
\* one.  add() does not ask for the lock and can be called on a manager
\* outside a session.
Add(id, comment, skip_same_comment) ==
    /\ pc \in {"idle", "down"}
    /\ id \notin DOMAIN requests \cup DOMAIN disk \cup DOMAIN archive
    /\ LET request == [NewRequest EXCEPT !.comment = comment]
           duplicate == IF skip_same_comment /\ request.comment # ""
                        THEN find_by_comment(requests, order, request.comment)
                        ELSE <<>>
           r == [request EXCEPT !.added_at = Aware(now)]
           arg == [id |-> id, comment |-> request.comment,
                   skip |-> skip_same_comment]
       IN IF duplicate # <<>>
          THEN /\ UNCHANGED <<requests, order, disk>>
               /\ last' = [Op("add") EXCEPT !.arg = arg]
          ELSE /\ requests' = Put(requests, id, r)
               /\ order' = Append(order, id)
               /\ disk' = Put(disk, id, r)
               /\ last' = [Op("add") EXCEPT !.arg = arg, !.id = id]
    /\ UNCHANGED <<now, pc, exe, in_service, runs, archive, lck>>

\* --------------------------------------------------------------- sessions
\* "with manager:" on a manager, possibly inside a session of the same
\* manager.  __enter__ returns at once when the manager has a lockfile;
\* otherwise it opens the lockfile, waits for the flock and scans.
SessionEnter(listing) ==
    /\ pc \in {"down", "idle", "raised"}
    /\ depth < MaxDepth
    /\ IF lockfile
       THEN /\ UNCHANGED <<mgr, archive, lockfile>>
            /\ pc' = pc
            /\ depth' = depth + 1
       ELSE /\ ~flock_blocks(other)
            /\ listing \in Orders(DOMAIN disk)
            /\ LET sc == scan(disk, archive, listing)
               IN /\ requests' = sc.requests
                  /\ order' = sc.order
                  /\ disk' = sc.disk
                  /\ archive' = sc.archive
                  /\ lockfile' = ~sc.raised
                  /\ depth' = IF sc.raised THEN 0 ELSE depth + 1
                  /\ pc' = IF sc.raised THEN "raised" ELSE "idle"
    /\ last' = Op("enter")
    /\ UNCHANGED <<now, exe, in_service, runs, other>>

\* The end of a "with manager:" block.  __exit__ closes the lockfile and
\* forgets it, in an inner block as well as in the outermost one.
SessionExit ==
    /\ pc = "idle"
    /\ depth >= 1
    /\ lockfile' = FALSE
    /\ depth' = depth - 1
    /\ pc' = IF depth = 1 THEN "down" ELSE "idle"
    /\ last' = Op("exit")
    /\ UNCHANGED <<now, mgr, archive, exe, in_service, runs, other>>

\* A method with @require_lock called on a manager without a lockfile: the
\* assertion fails and the exception ends every open block.
RequireLockRaises ==
    /\ pc \in {"idle", "down"}
    /\ ~require_lock(lockfile)
    /\ pc' = "raised"
    /\ depth' = 0
    /\ last' = Op("assert")
    /\ UNCHANGED <<now, mgr, archive, exe, in_service, runs, lockfile, other>>

\* ReqManager.scan called directly; it does not ask for the lock.
Scan(listing) ==
    /\ pc \in {"idle", "down"}
    /\ listing \in Orders(DOMAIN disk)
    /\ LET sc == scan(disk, archive, listing)
       IN /\ requests' = sc.requests
          /\ order' = sc.order
          /\ disk' = sc.disk
          /\ archive' = sc.archive
          /\ pc' = IF sc.raised THEN "raised" ELSE pc
          /\ depth' = IF sc.raised THEN 0 ELSE depth
          /\ lockfile' = (lockfile /\ ~sc.raised)
    /\ last' = Op("scan")
    /\ UNCHANGED <<now, exe, in_service, runs, other>>

\* Another process enters a session on the same spool: its flock returns
\* when nobody holds the lock.
OtherEnter ==
    /\ other = "out"
    /\ ~lockfile
    /\ other' = "in"
    /\ last' = Op("other_enter")
    /\ UNCHANGED <<now, mgr, archive, pc, exe, in_service, runs, lockfile,
                   depth>>

\* The other process leaves its session.
OtherExit ==
    /\ other = "in"
    /\ other' = "out"
    /\ last' = Op("other_exit")
    /\ UNCHANGED <<now, mgr, archive, pc, exe, in_service, runs, lockfile,
                   depth>>

\* ------------------------------------------------------------- update_due
\* Request.update_due(due) called with a datetime object or None on a
\* request of the collection.  The TypeError leaves the session; the
\* request object keeps what update_due has assigned before.
UpdateDue(id, due) ==
    /\ pc = "idle"
    /\ id \in DOMAIN requests
    /\ LET res == update_due(requests[id], due, now)
       IN /\ requests' = [requests EXCEPT ![id] = res.req]
          /\ pc' = IF res.raised THEN "raised" ELSE "idle"
          /\ last' = [Op("update_due") EXCEPT
                        !.id = id, !.result = res.changed]
    /\ LockFollows
    /\ UNCHANGED <<now, order, disk, exe, in_service, runs, archive>>

\* --------------------------------------------------------------- ordering
\* sorted(self.requests.values()): the result is left in batch.
Sort ==
    /\ pc = "idle"
    /\ batch' = sorted(requests, order)
    /\ last' = Op("sorted")
    /\ UNCHANGED <<now, mgr, pc, requested_reboots, ran, in_service,
                   reboot_cmd, runs, archive, lck>>

\* a == b for the request a of the collection and the request b as it is
\* loaded from the spool.
Compare(a, b) ==
    /\ pc = "idle"
    /\ a \in DOMAIN requests
    /\ b \in DOMAIN disk
    /\ last' = [Op("eq") EXCEPT
                  !.id = b, !.arg.id = a,
                  !.result = ReqEq(<<a, requests[a]>>, <<b, load(disk[b])>>)]
    /\ UNCHANGED <<now, mgr, pc, exe, in_service, runs, archive, lck>>

\* ------------------------------------------------- request.yaml round trip
\* A Request object with the attributes yaml.dump sees: reqid is _reqid
\* (<<>> for None, until the id property is read), reqmanager and log are
\* the back-reference and the logger.
RequestObject(reqid, r, reqmanager, log) ==
    [reqid |-> reqid, state |-> r.state, comment |-> r.comment,
     estimate |-> r.estimate, next_due |-> r.next_due,
     added_at |-> r.added_at, last_scheduled_at |-> r.last_scheduled_at,
     attempts |-> r.attempts, reqmanager |-> reqmanager, log |-> log]

\* Request.id: _reqid, generated from shortuuid on the first access.
request_id(obj, uuid) == IF obj.reqid = <<>> THEN uuid ELSE obj.reqid

\* yaml's representation of a datetime: the wall clock with the offset, if
\* the datetime has one.
represent_datetime(d) ==
    IF d.kind = "none" THEN [text |-> "null", t |-> 0, off |-> ""]
    ELSE [text |-> "timestamp", t |-> d.t,
          off |-> IF d.kind = "aware" THEN "+00:00" ELSE ""]

\* yaml's constructor for a timestamp.  Whether a timestamp with an offset
\* comes back with tzinfo or as the UTC wall clock without depends on the
\* PyYAML release (keeps_tz).
construct_yaml_timestamp(y, keeps_tz) ==
    IF y.text = "null" THEN None
    ELSE IF y.off # "" /\ keeps_tz THEN Aware(y.t)
    ELSE Naive(y.t)

\* ensure_timezone_present: a datetime without tzinfo is taken as UTC.
ensure_timezone_present(dt) ==
    IF Truthy(dt) /\ dt.kind = "naive" THEN Aware(dt.t) ELSE dt

\* request_representer and yaml.dump: the copy without the back-reference
\* and without the logger.
request_representer(data) ==
    [reqid |-> data.reqid, state |-> data.state, comment |-> data.comment,
     estimate |-> data.estimate,
     next_due |-> represent_datetime(data.next_due),
     added_at |-> represent_datetime(data.added_at),
     last_scheduled_at |-> represent_datetime(data.last_scheduled_at),
     attempts |-> data.attempts, reqmanager |-> "None"]

\* Request.load of a snapshot that request_representer has written.
load_yaml(snapshot, keeps_tz, log) ==
    [reqid |-> snapshot.reqid, state |-> snapshot.state,
     comment |-> snapshot.comment, estimate |-> snapshot.estimate,
     next_due |-> ensure_timezone_present(
                     construct_yaml_timestamp(snapshot.next_due, keeps_tz)),
     added_at |-> ensure_timezone_present(
                     construct_yaml_timestamp(snapshot.added_at, keeps_tz)),
     last_scheduled_at |->
         ensure_timezone_present(
             construct_yaml_timestamp(snapshot.last_scheduled_at, keeps_tz)),
     attempts |-> snapshot.attempts, reqmanager |-> snapshot.reqmanager,
     log |-> log]

\* Ids shortuuid.uuid() can return.
Uuids == {<<3, 1>>, <<3, 2>>}

\* The id property is read on the request object (kept under "original");
\* a new id differs from every id there is.
ReadId(uuid) ==
    /\ pc = "idle"
    /\ \A w \in DOMAIN requests : requests[w].reqid # uuid
    /\ requests' = [requests EXCEPT
                      !["original"].reqid =
                          request_id(requests["original"], uuid)]
    /\ last' = [Op("id") EXCEPT
                  !.id = request_id(requests["original"], uuid)]
    /\ UNCHANGED <<now, order, disk, pc, exe, in_service, runs, archive, lck>>

\* Request.save of the request object; request.yaml is the only snapshot.
SaveRequest ==
    /\ pc = "idle"
    /\ "original" \in DOMAIN requests
    /\ disk' = [f \in {"request.yaml"} |->
                    request_representer(requests["original"])]
    /\ requests' = Restrict(requests, {"original"})
    /\ last' = Op("save")
    /\ UNCHANGED <<now, order, pc, exe, in_service, runs, archive, lck>>

\* Request.load of the directory; the object it returns is kept under
\* "loaded".  set_up_logging reads the id.
LoadRequest(keeps_tz, uuid) ==
    /\ pc = "idle"
    /\ "request.yaml" \in DOMAIN disk
    /\ \A w \in DOMAIN requests : requests[w].reqid # uuid
    /\ LET instance == load_yaml(disk["request.yaml"], keeps_tz, "log")
       IN requests' =
             Put(requests, "loaded",
                 [instance EXCEPT !.reqid = request_id(instance, uuid)])
    /\ last' = Op("load")
    /\ UNCHANGED <<now, order, disk, pc, exe, in_service, runs, archive, lck>>

\* --------------------------------------------------- Request.save by steps
\* A file of the request directory: how much of data has been written.
File(written, data) == [written |-> written, data |-> data]

\* save() that writes into request.yaml itself
dump_target_in_place == "request.yaml"

\* The file yaml.dump writes to: the NamedTemporaryFile in self.dir.
dump_target == "tmpfile"

\* save() begins: the directory is made if it is missing and the temporary
\* file is created, empty.  A temporary file a killed save() has left
\* keeps its own name and is not looked at again.
SaveBegin ==
    /\ pc \in {"idle", "down"}
    /\ "original" \in DOMAIN requests
    /\ pc' = "save_dump"
    /\ disk' = Put(Restrict(disk, DOMAIN disk \ {"tmpfile"}), dump_target,
                   File("nothing", request_representer(requests["original"])))
    /\ last' = Op("save")
    /\ UNCHANGED <<now, requests, order, exe, in_service, runs, archive, lck>>

\* yaml.dump(self, tf): the snapshot is written piece by piece.
SaveDump ==
    /\ pc = "save_dump"
    /\ disk' = [disk EXCEPT ![dump_target].written =
                    IF @ = "nothing" THEN "part" ELSE "all"]
    /\ pc' = IF disk[dump_target].written = "nothing" THEN "save_dump"
             ELSE "save_sync"
    /\ UNCHANGED <<now, requests, order, exe, in_service, runs, archive, lck,
                   last>>

\* tf.flush(); os.fsync(); os.chmod()
SaveSync ==
    /\ pc = "save_sync"
    /\ pc' = "save_rename"
    /\ UNCHANGED <<now, mgr, exe, in_service, runs, archive, lck, last>>

\* os.rename(tf.name, self.filename)
SaveRename ==
    /\ pc = "save_rename"
    /\ disk' = Put(Restrict(disk, DOMAIN disk \ {dump_target}),
                   "request.yaml", disk[dump_target])
    /\ pc' = "save_activity"
    /\ UNCHANGED <<now, requests, order, exe, in_service, runs, archive, lck,
                   last>>

\* self.activity.dump(), in the request directory
SaveActivityDump ==
    /\ pc = "save_activity"
    /\ disk' = Put(disk, "activity",
                   File("all", requests["original"].attempts))
    /\ pc' = "idle"
    /\ UNCHANGED <<now, requests, order, exe, in_service, runs, archive, lck,
                   last>>

\* The process is killed inside save().
SaveKill ==
    /\ pc \in {"save_dump", "save_sync", "save_rename", "save_activity"}
    /\ pc' = "down"
    /\ last' = Op("kill")
    /\ UNCHANGED <<now, mgr, exe, in_service, runs, archive, lck>>

\* The request changes between two saves: an attempt is recorded and the
\* state set.
Change(state) ==
    /\ pc = "idle"
    /\ runs < MaxRuns
    /\ runs' = runs + 1
    /\ requests' = [requests EXCEPT
                      !["original"].state = state,
                      !["original"].attempts =
                          Append(@, AttemptRecord(EXIT_TEMPFAIL))]
    /\ last' = Op("change")
    /\ UNCHANGED <<now, order, disk, pc, exe, in_service, archive, lck>>

\* ---------------------------------------------------------- specifications
OneId == {<<1, 1>>}

\* Save outcomes without the failure in activity.dump()
RenameOutcomes == {"ok", "fail"}

\* One request through its life: scheduled, executed, postponed, deleted,
\* loaded again.  The harness of Request.execute works.
Init == InitWith(OneId, SpoolSnapshots)

Next ==
    \/ Tick
    \/ \E result \in Responses(OneId, {}) : Schedule(result)
    \/ \E run_all_now \in BOOLEAN : ExecuteStart(run_all_now, "ok")
    \/ RequestExecuteBegin("ok", FALSE, "ok")
    \/ \E run \in {"ok", "raise"},
          returncode \in {EXIT_SUCCESS, EXIT_TEMPFAIL, EXIT_POSTPONE} :
          RequestExecuteFinish(run, returncode, "none", "ok", "none")
    \/ ExecuteEnd("ok", TRUE)
    \/ Kill
    \/ \E listing \in Orders(DOMAIN disk) : Enter(listing)
    \/ Postpone("ok")
    \/ \E reqid \in {<<1>>, <<2>>} : Delete(reqid)

Spec == Init /\ [][Next]_vars

\* One scheduled request executed with every failure of the harness.
InitHarness ==
    InitWith(OneId, {[s EXCEPT !.next_due = Aware(0)] : s \in SpoolSnapshots})

NextHarness ==
    \/ Tick
    \/ \E run_all_now \in BOOLEAN : ExecuteStart(run_all_now, "ok")
    \/ \E io1, io2 \in SaveOutcomes, cd_fails \in BOOLEAN :
          RequestExecuteBegin(io1, cd_fails, io2)
    \/ \E run \in {"ok", "raise"}, returncode \in ExitCodes,
          late \in LateFailures, io2 \in SaveOutcomes :
          RequestExecuteFinish(run, returncode, late, io2, "none")
    \/ ExecuteEnd("ok", TRUE)
    \/ Kill
    \/ \E listing \in Orders(DOMAIN disk) : Enter(listing)

SpecHarness == InitHarness /\ [][NextHarness]_vars

\* Two scheduled requests in one batch, with the reboots they need and
\* with failing commands.
ScheduledSnapshots ==
    {[NewRequest EXCEPT !.next_due = d] :
        d \in {None} \cup {Aware(t) : t \in 0..MaxTime}}

InitBatch == InitWith(LocalIds, ScheduledSnapshots)

NextBatch ==
    \/ Tick
    \/ \E run_all_now \in BOOLEAN, hook \in HookOutcomes :
          ExecuteStart(run_all_now, hook)
    \/ RequestExecuteBegin("ok", FALSE, "ok")
    \/ \E run \in {"ok", "raise"},
          returncode \in {EXIT_SUCCESS, EXIT_TEMPFAIL, EXIT_OTHER},
          reboot_needed \in RebootTypes :
          RequestExecuteFinish(run, returncode, "none", "ok", reboot_needed)
    \/ \E hook \in HookOutcomes, cmd_ok \in BOOLEAN : ExecuteEnd(hook, cmd_ok)
    \/ Kill
    \/ \E listing \in Orders(DOMAIN disk) : Enter(listing)

SpecBatch == InitBatch /\ [][NextBatch]_vars

\* Two requests in sessions that are killed and whose saves fail.  Earlier
\* sessions left the requests not yet scheduled, scheduled, or running (the
\* session was killed while the activity ran).
CrashSnapshots ==
    ScheduledSnapshots
    \cup {[NewRequest EXCEPT !.next_due = Aware(0), !.state = "running"]}

InitCrash == InitWith(LocalIds, CrashSnapshots)

NextCrash ==
    \/ Tick
    \/ \E run_all_now \in BOOLEAN : ExecuteStart(run_all_now, "ok")
    \/ \E io1, io2 \in RenameOutcomes :
          RequestExecuteBegin(io1, FALSE, io2)
    \/ \E run \in {"ok", "raise"},
          returncode \in {EXIT_SUCCESS, EXIT_TEMPFAIL, EXIT_POSTPONE},
          io2 \in RenameOutcomes :
          RequestExecuteFinish(run, returncode, "none", io2, "none")
    \/ ExecuteEnd("ok", TRUE)
    \/ Kill
    \/ \E listing \in Orders(DOMAIN disk) : Enter(listing)

SpecCrash == InitCrash /\ [][NextCrash]_vars

\* The directory's schedule against the local collection.
InitSchedule == InitWith(LocalIds, SpoolSnapshots)

NextSchedule ==
    \/ Tick
    \/ \E result \in Responses(LocalIds, ForeignIds) : Schedule(result)

SpecSchedule == InitSchedule /\ [][NextSchedule]_vars

\* The manager's operations on the collection: requests are added,
\* postponed, archived and deleted, directories fail to load.
Estimates == {30, 45}

ManageSnapshots ==
    {[NewRequest EXCEPT !.comment = c] : c \in Comments}
    \cup {[NewRequest EXCEPT !.state = "postpone", !.next_due = Aware(0),
                             !.rc = EXIT_POSTPONE, !.estimate = e,
                             !.attempts = <<AttemptRecord(EXIT_POSTPONE)>>] :
             e \in Estimates}
    \cup {[NewRequest EXCEPT !.state = "success", !.next_due = Aware(0),
                             !.rc = EXIT_SUCCESS,
                             !.attempts = <<AttemptRecord(EXIT_SUCCESS)>>],
          Corrupt}

\* No session runs yet; the spool holds directories of these ids with
\* these snapshots.
InitDown(idsets, snapshots) ==
    /\ now = 0
    /\ \E ids \in idsets : disk \in [ids -> snapshots]
    /\ requests = <<>>
    /\ order = <<>>
    /\ pc = "down"
    /\ batch = <<>>
    /\ requested_reboots = {}
    /\ ran = <<>>
    /\ in_service = "in"
    /\ reboot_cmd = "none"
    /\ last = Op("init")
    /\ runs = 0
    /\ archive = <<>>
    /\ lockfile = FALSE
    /\ depth = 0
    /\ other = "out"

InitManage == InitDown({{<<1, 1>>}, LocalIds}, ManageSnapshots)

NextManage ==
    \/ Tick
    \/ \E listing \in Orders(DOMAIN disk) : Enter(listing)
    \/ \E id \in AllIds, comment \in Comments, skip \in BOOLEAN :
          Add(id, comment, skip)
    \/ Postpone("ok")

SpecManage == InitManage /\ [][NextManage]_vars

\* The end of requests: they are deleted and archived.
ArchiveSnapshots ==
    {NewRequest,
     [NewRequest EXCEPT !.state = "success", !.next_due = Aware(0),
                        !.rc = EXIT_SUCCESS,
                        !.attempts = <<AttemptRecord(EXIT_SUCCESS)>>],
     [NewRequest EXCEPT !.state = "tempfail", !.next_due = Aware(0),
                        !.rc = EXIT_TEMPFAIL,
                        !.attempts = <<AttemptRecord(EXIT_TEMPFAIL)>>]}

InitArchive == InitDown({LocalIds, AllIds}, ArchiveSnapshots)

NextArchive ==
    \/ Tick
    \/ \E listing \in Orders(DOMAIN disk) : Enter(listing)
    \/ Archive("ok")
    \/ \E reqid \in Prefixes : Delete(reqid)

SpecArchive == InitArchive /\ [][NextArchive]_vars

\* Sessions on one manager, nested or not, next to a second process; the
\* methods that ask for the lock and the ones that do not.
LockSnapshots == {NewRequest, [NewRequest EXCEPT !.comment = "update"], Corrupt}

InitLock == InitDown({LocalIds}, LockSnapshots)

NextLock ==
    \/ \E listing \in Orders(DOMAIN disk) : SessionEnter(listing)
    \/ SessionExit
    \/ RequireLockRaises
    \/ \E listing \in Orders(DOMAIN disk) : Scan(listing)
    \/ OtherEnter
    \/ OtherExit
    \/ \E id \in AllIds, comment \in Comments, skip \in BOOLEAN :
          Add(id, comment, skip)
    \/ \E reqid \in Prefixes : Delete(reqid)

SpecLock == InitLock /\ [][NextLock]_vars

\* Requests with and without due times are compared and sorted.
DueTimes == {None} \cup {Aware(t) : t \in 0..MaxTime}

OrderSnapshots == {[NewRequest EXCEPT !.next_due = d] : d \in DueTimes}

InitOrder ==
    /\ now = 0
    /\ requests \in [AllIds -> OrderSnapshots]
    /\ order \in Orders(AllIds)
    /\ disk = [id \in AllIds |-> NewRequest]
    /\ pc = "idle"
    /\ batch = <<>>
    /\ requested_reboots = {}
    /\ ran = <<>>
    /\ in_service = "in"
    /\ reboot_cmd = "none"
    /\ last = Op("init")
    /\ runs = 0
    /\ archive = <<>>
    /\ lockfile = TRUE
    /\ depth = 1
    /\ other = "out"

NextOrder ==
    \/ Sort
    \/ \E a, b \in AllIds : Compare(a, b)

SpecOrder == InitOrder /\ [][NextOrder]_vars

\* Due times set by hand and read back from the spool, with and without
\* a time zone.
DueSnapshots ==
    {NewRequest,
     [NewRequest EXCEPT !.next_due = Aware(0)],
     [NewRequest EXCEPT !.next_due = Naive(1)]}

Datetimes ==
    {None} \cup {Aware(t) : t \in 0..MaxTime} \cup {Naive(t) : t \in 0..MaxTime}

InitDue == InitDown({LocalIds}, DueSnapshots)

NextDue ==
    \/ Tick
    \/ \E listing \in Orders(DOMAIN disk) : Enter(listing)
    \/ \E id \in LocalIds, due \in Datetimes : UpdateDue(id, due)

SpecDue == InitDue /\ [][NextDue]_vars

\* One request object is saved and loaded again.  Its id has been read
\* before (as add() does) or not; its timestamps have a time zone.
RoundTripObjects ==
    {RequestObject(reqid,
                   [r EXCEPT !.next_due = d, !.added_at = a,
                             !.last_scheduled_at = d],
                   reqmanager, "log") :
        reqid \in {<<>>, <<1, 1>>},
        r \in {NewRequest,
               [NewRequest EXCEPT !.comment = "update", !.state = "tempfail",
                                  !.rc = EXIT_TEMPFAIL,
                                  !.attempts = PastAttempts(2)]},
        d \in DueTimes,
        a \in {None, Aware(0)},
        reqmanager \in {"None", "ReqManager"}}

InitRoundTrip ==
    /\ now = 0
    /\ \E obj \in RoundTripObjects :
          requests = [w \in {"original"} |-> obj]
    /\ order = <<>>
    /\ disk = <<>>
    /\ pc = "idle"
    /\ batch = <<>>
    /\ requested_reboots = {}
    /\ ran = <<>>
    /\ in_service = "in"
    /\ reboot_cmd = "none"
    /\ last = Op("init")
    /\ runs = 0
    /\ archive = <<>>
    /\ lockfile = TRUE
    /\ depth = 1
    /\ other = "out"

NextRoundTrip ==
    \/ \E uuid \in Uuids : ReadId(uuid)
    \/ SaveRequest
    \/ \E keeps_tz \in BOOLEAN, uuid \in Uuids : LoadRequest(keeps_tz, uuid)

SpecRoundTrip == InitRoundTrip /\ [][NextRoundTrip]_vars

\* A request is saved again and again, changing in between; the process
\* can be killed at every step of save().  The first save finds no
\* request.yaml.
InitSave ==
    /\ InitRoundTrip
    /\ requests["original"].reqid # <<>>

NextSave ==
    \/ SaveBegin
    \/ SaveDump
    \/ SaveSync
    \/ SaveRename
    \/ SaveActivityDump
    \/ SaveKill
    \/ \E state \in {"tempfail", "success"} : Change(state)

SpecSave == InitSave /\ [][NextSave]_vars

\* The due time of one request is set, repeated, moved and cleared by
\* schedule() and postpone() as time passes.
RescheduleSnapshots ==
    {NewRequest,
     [NewRequest EXCEPT !.next_due = Aware(0)],
     [NewRequest EXCEPT !.state = "postpone", !.next_due = Aware(0),
                        !.rc = EXIT_POSTPONE,
                        !.attempts = <<AttemptRecord(EXIT_POSTPONE)>>]}

InitReschedule == InitWith(OneId, RescheduleSnapshots)

NextReschedule ==
    \/ Tick
    \/ \E result \in Responses(OneId, {}) : Schedule(result)
    \/ Postpone("ok")

SpecReschedule == InitReschedule /\ [][NextReschedule]_vars

\* Two requests, to be postponed or archived, while the directory may fail:
\* the call raises, the session ends and the next one reads the spool.
RemoteSnapshots ==
    {NewRequest,
     [NewRequest EXCEPT !.state = "postpone", !.next_due = Aware(0),
                        !.rc = EXIT_POSTPONE,
                        !.attempts = <<AttemptRecord(EXIT_POSTPONE)>>],
     [NewRequest EXCEPT !.state = "success", !.next_due = Aware(0),
                        !.rc = EXIT_SUCCESS,
                        !.attempts = <<AttemptRecord(EXIT_SUCCESS)>>],
     [NewRequest EXCEPT !.state = "deleted"]}

InitRemote == InitWith(LocalIds, RemoteSnapshots)

NextRemote ==
    \/ Tick
    \/ \E remote \in {"ok", "fail"} : Postpone(remote)
    \/ \E remote \in {"ok", "fail"} : Archive(remote)
    \/ \E listing \in Orders(DOMAIN disk) : Enter(listing)

SpecRemote == InitRemote /\ [][NextRemote]_vars

\* One request close to the retry ceiling whose activity fails temporarily
\* or asks to be postponed, in one session of schedule, execute, postpone
\* and archive calls without run_all_now.  The cap on runs leaves enough
\* runs to pass the ceiling from every snapshot.
NearCeiling == MAX_RETRIES + 1 - MaxRuns

RetrySnapshots ==
    {[NewRequest EXCEPT !.state = "tempfail", !.next_due = d,
                        !.rc = EXIT_TEMPFAIL,
                        !.attempts = PastAttempts(n)] :
        d \in {None, Aware(0)}, n \in NearCeiling..(MAX_RETRIES + 1)}

InitRetry == InitWith(OneId, RetrySnapshots)

\* ReqManager.execute() without run_all_now, from the call to its return;
\* the loop over runnable_requests runs every request it holds.
ExecuteRetry ==
    \/ ExecuteStart(FALSE, "ok")
    \/ RequestExecuteBegin("ok", FALSE, "ok")
    \/ \E returncode \in {EXIT_TEMPFAIL, EXIT_POSTPONE} :
          RequestExecuteFinish("ok", returncode, "none", "ok", "none")
    \/ ExecuteEnd("ok", TRUE)

NextRetry ==
    \/ Tick
    \/ \E result \in Responses(OneId, {}) : Schedule(result)
    \/ ExecuteRetry
    \/ Postpone("ok")
    \/ Archive("ok")

\* execute() is called again and again and runs to its end.
SpecRetry == InitRetry /\ [][NextRetry]_vars /\ WF_vars(ExecuteRetry)

\* ================================================================ claims

SuccessfulNeeds(r) ==
    {r[i].reboot_needed : i \in {j \in 1..Len(r) : r[j].state = "success"}}

\* C2: after the batch of execute(), poweroff is issued when a successful
\* request of the batch needs a cold reboot; reboot is issued exactly when a
\* successful request needs a warm one and none a cold one; nothing is
\* issued when no successful request needs a reboot.
C2_RebootDecision ==
    last.op = "execute_end" =>
        LET needs == SuccessfulNeeds(last.ran)
        IN /\ "COLD" \in needs => reboot_cmd = "poweroff"
           /\ reboot_cmd = "reboot" <=> ("WARM" \in needs /\ "COLD" \notin needs)
           /\ needs \subseteq {"none"} => reboot_cmd = "none"

\* C2 witness: a batch with a successful request that needs a cold reboot,
\* a successful one that needs a warm reboot, and poweroff issued.
C2_Witness ==
    /\ last.op = "execute_end"
    /\ reboot_cmd = "poweroff"
    /\ \E i, j \in 1..Len(last.ran) :
          /\ last.ran[i].state = "success" /\ last.ran[i].reboot_needed = "COLD"
          /\ last.ran[j].state = "success" /\ last.ran[j].reboot_needed = "WARM"

Positions(seq, id) == {i \in 1..Len(seq) : seq[i] = id}

\* a is not after b in ascending order: by due time, a request without a
\* due time after the ones with one, by id among those without
Ascending(a, ida, b, idb) ==
    IF Truthy(a.next_due) /\ Truthy(b.next_due)
    THEN a.next_due.t <= b.next_due.t
    ELSE IF Truthy(b.next_due) THEN Truthy(a.next_due)
    ELSE Truthy(a.next_due) \/ StrLess(ida, idb) \/ ida = idb

\* C4: runnable() refreshes the state of every request, then yields the
\* running requests before the due and tempfail ones, the latter in
\* ascending request order; every request in one of the three states is
\* yielded exactly once and no other request is yielded.
C4_RunnableOrder ==
    LET rn == runnable(requests, order, now)
        seq == rn.seq
        st(id) == rn.reqs[id].state
    IN /\ \A id \in DOMAIN requests :
             /\ rn.reqs[id] = update_state(requests[id], now)
             /\ Cardinality(Positions(seq, id)) =
                  IF st(id) \in {"running", "due", "tempfail"} THEN 1 ELSE 0
       /\ \A i \in 1..Len(seq) : seq[i] \in DOMAIN requests
       /\ \A i, j \in 1..Len(seq) :
             i < j =>
                /\ st(seq[j]) = "running" => st(seq[i]) = "running"
                /\ st(seq[i]) # "running" =>
                      Ascending(rn.reqs[seq[i]], seq[i],
                                rn.reqs[seq[j]], seq[j])

\* C4 witness: execute() took its batch from runnable(); the collection
\* lists a due request before a running one and the batch has the running
\* one first.
C4_Witness ==
    /\ last.op = "execute_start"
    /\ Len(order) = 2
    /\ batch = <<order[2], order[1]>>
    /\ requests[order[2]].state = "running"
    /\ requests[order[1]].state = "due"

\* C5 as stated: update_state() gives retrylimit to a request with more
\* than MAX_RETRIES attempts unless it is deleted, which it leaves deleted,
\* and never gives retrylimit to a request with at most MAX_RETRIES
\* attempts.
C5_RetryLimit ==
    \A id \in DOMAIN requests :
        LET r == requests[id]
            u == update_state(r, now)
        IN /\ Len(r.attempts) > MAX_RETRIES =>
                u.state = IF r.state = "deleted" THEN "deleted"
                          ELSE "retrylimit"
           /\ Len(r.attempts) <= MAX_RETRIES /\ r.state # "retrylimit" =>
                u.state # "retrylimit"

\* C6 as stated: a deleted request stays deleted and is not executed again,
\* and only delete() makes a request deleted.
C6_DeletedTerminal ==
    [][\A id \in DOMAIN requests \cap DOMAIN requests' :
          /\ requests[id].state = "deleted" =>
                /\ requests'[id].state = "deleted"
                /\ requests'[id].attempts = requests[id].attempts
          /\ requests'[id].state = "deleted" =>
                requests[id].state = "deleted" \/ last'.op = "delete"]_vars

\* The due time of r has passed at time t
DuePassed(r, t) == Truthy(r.next_due) /\ t >= r.next_due.t

\* C7 as stated: update_state() makes a request due exactly when it is
\* pending or postpone and its due time has passed; time passing changes no
\* other state; a pending or postpone request whose due time has not passed
\* or is unset keeps its state.
C7_TimeDriven ==
    \A id \in DOMAIN requests :
        LET r == requests[id]
            u == update_state(r, now)
            waiting == r.state \in {"pending", "postpone"}
        IN /\ waiting /\ DuePassed(r, now) => u.state = "due"
           /\ u.state = "due" /\ r.state # "due" =>
                waiting /\ DuePassed(r, now)
           /\ ~waiting =>
                \A t \in now..MaxTime : update_state(r, t).state = u.state
           /\ waiting /\ ~DuePassed(r, now) => u.state = r.state

\* C7 amended: the statement holds for a request with at most MAX_RETRIES
\* attempts; with more attempts update_state() gives retrylimit whatever the
\* state and the due time.
C7_TimeDrivenWithinLimit ==
    \A id \in DOMAIN requests :
        LET r == requests[id]
            u == update_state(r, now)
            waiting == r.state \in {"pending", "postpone"}
        IN /\ Len(r.attempts) <= MAX_RETRIES =>
                /\ waiting /\ DuePassed(r, now) => u.state = "due"
                /\ u.state = "due" /\ r.state # "due" =>
                      waiting /\ DuePassed(r, now)
                /\ waiting /\ ~DuePassed(r, now) => u.state = r.state
           /\ ~waiting =>
                \A t \in now..MaxTime : update_state(r, t).state = u.state
           /\ Len(r.attempts) > MAX_RETRIES => u.state = "retrylimit"

\* C7 witness: the refresh of runnable() or schedule() has made a request
\* due in memory that is saved as pending or postpone and whose due time
\* has passed.
C7_Witness ==
    \E id \in DOMAIN requests :
        /\ requests[id].state = "due"
        /\ disk[id].state \in {"pending", "postpone"}
        /\ Len(requests[id].attempts) <= MAX_RETRIES
        /\ DuePassed(requests[id], now)

\* C8: Request.execute() lets no failure of its harness escape to the
\* caller; after such a failure the request is in state error whatever the
\* activity returned.
C8_HarnessFailureIsError ==
    /\ ~(pc = "raised" /\ last.op = "request_execute")
    /\ last.op = "request_execute" /\ last.harness =>
          requests[last.id].state = "error"

\* C8 witness: the harness failed after the activity had returned success,
\* and the request is in state error.
C8_Witness ==
    /\ last.op = "request_execute"
    /\ last.harness
    /\ last.run = "ok"
    /\ requests[last.id].rc = EXIT_SUCCESS
    /\ requests[last.id].state = "error"
    /\ pc = "batch"

\* C9 as stated: when Request.execute() has returned the request is in
\* success, tempfail, postpone or error; it is in success when the activity
\* returned 0; when the activity raised, the attempt holds return code 70
\* and the message, and the request is in error unless the activity's
\* return code maps to postpone or tempfail.
C9_ExecuteOutcome ==
    last.op = "request_execute" /\ pc # "running" =>
        LET r == requests[last.id]
        IN /\ r.state \in {"success", "tempfail", "postpone", "error"}
           /\ ~last.harness /\ last.run = "ok" /\ r.rc = EXIT_SUCCESS =>
                r.state = "success"
           /\ ~last.harness /\ last.run = "raise" =>
                /\ r.attempts[Len(r.attempts)] = AttemptRaised
                /\ r.state = "error" \/
                      /\ r.rc \in {EXIT_POSTPONE, EXIT_TEMPFAIL}
                      /\ r.state = evaluate_state(r.rc)

\* C10 as stated: while an activity runs, the saved state of the request in
\* flight is running and that of no other request is; after a kill the next
\* session's runnable() yields the request saved as running before any due
\* or tempfail one.
C10_InFlightOnDisk ==
    /\ pc = "running" =>
          /\ disk[Head(batch)].state = "running"
          /\ \A id \in DOMAIN disk \ {Head(batch)} :
                disk[id].state # "running"
    /\ last.op = "enter" =>
          LET rn == runnable(requests, order, now)
          IN \A id \in DOMAIN requests :
                requests[id].state = "running" =>
                   \E i \in Positions(rn.seq, id) :
                      \A j \in 1..(i - 1) :
                         rn.reqs[rn.seq[j]].state = "running"

\* Ids of the requests a batch has finished, in the order they ran
Ids(r) == [i \in 1..Len(r) |-> r[i].id]

\* C11: execute() takes as its batch the sequence of runnable(), or with
\* run_all_now the whole collection; every Request.execute() call starts
\* when no request is in flight and is for the first request not yet run;
\* a request that has returned, in whatever state, is moved from the
\* requests to run to the requests that ran, so that the two together stay
\* the batch; execute() goes past the loop only when none is left to run.
C11_BatchRunsAll ==
    /\ [][pc = "idle" /\ pc' = "batch" =>
            /\ ran' = <<>>
            /\ batch' = IF last'.all THEN order
                        ELSE runnable(requests, order, now).seq]_vars
    /\ [][Alive(pc) /\ pc # "idle" /\ Alive(pc') /\ pc' # "idle" =>
            Ids(ran') \o batch' = Ids(ran) \o batch]_vars
    /\ [][runs' # runs =>
            /\ runs' = runs + 1
            /\ pc = "batch" /\ batch # <<>>
            /\ pc' = "running" => batch' = batch
            /\ pc' = "batch" => Ids(ran') = Append(Ids(ran), Head(batch))]_vars
    /\ [][pc = "running" /\ pc' = "batch" =>
            Ids(ran') = Append(Ids(ran), Head(batch))]_vars
    /\ [][pc = "batch" /\ pc' = "batch" /\ batch' # batch =>
            runs' = runs + 1]_vars
    /\ [][pc = "batch" /\ last'.op = "execute_end" =>
            batch = <<>> /\ last'.ran = ran]_vars

\* C11 witness: a batch of two requests has ended; the first one ended in
\* error and the second one ran after it and succeeded.
C11_Witness ==
    /\ last.op = "execute_end"
    /\ Len(last.ran) = 2
    /\ last.ran[1].state = "error"
    /\ last.ran[2].state = "success"

\* The step is the operation of this name.
Step(name) == last'.op = name /\ now' = now

\* C12: add() with skip_same_comment and a request of the collection with
\* the same non-empty comment returns None and changes neither the
\* collection nor a snapshot; any other add() returns the request, which is
\* then in the collection under its id, stamped with added_at and saved in
\* requests/, and no other request or snapshot has changed.
C12_Add ==
    [][Step("add") =>
        LET a == last'.arg
            dup == /\ a.skip /\ a.comment # ""
                   /\ \E x \in DOMAIN requests :
                         requests[x].comment = a.comment
        IN IF dup
           THEN /\ last'.id = <<>>
                /\ requests' = requests /\ order' = order /\ disk' = disk
           ELSE /\ last'.id = a.id
                /\ a.id \in DOMAIN requests' /\ a.id \in DOMAIN disk'
                /\ requests'[a.id].comment = a.comment
                /\ requests'[a.id].added_at = Aware(now)
                /\ disk'[a.id] = requests'[a.id]
                /\ \A x \in DOMAIN requests \ {a.id} :
                      requests'[x] = requests[x]
                /\ \A x \in DOMAIN disk \ {a.id} : disk'[x] = disk[x]
                /\ DOMAIN requests' = DOMAIN requests \cup {a.id}
                /\ DOMAIN disk' = DOMAIN disk \cup {a.id}]_vars

\* C12 witness: an add() with skip_same_comment was turned down because of
\* a request with the same comment, and an earlier add() without
\* skip_same_comment has put a second request with that comment into the
\* collection.
C12_Witness ==
    /\ last.op = "add"
    /\ last.id = <<>>
    /\ last.arg.skip
    /\ last.arg.comment = "update"
    /\ \E x, y \in DOMAIN requests :
          /\ x # y
          /\ requests[x].comment = "update" /\ requests[y].comment = "update"
          /\ requests[y].added_at # None

\* C13: a scan() does not raise; every directory that loads is in the
\* collection under its id afterwards and stays in requests/, every
\* directory that fails to load is in neither and is in archive/ with the
\* error note; a scan() that follows a scan() finds nothing to archive.
C13_ScanIsolatesCorrupt ==
    /\ [][Step("enter") =>
            /\ pc' = "idle"
            /\ DOMAIN requests' = {id \in DOMAIN disk : Loadable(disk[id])}
            /\ DOMAIN disk' = DOMAIN requests'
            /\ \A id \in DOMAIN disk :
                  IF Loadable(disk[id])
                  THEN /\ requests'[id] = load(disk[id])
                       /\ disk'[id] = disk[id]
                       /\ id \in DOMAIN archive' => id \in DOMAIN archive
                  ELSE /\ id \in DOMAIN archive'
                       /\ archive'[id].note
                       /\ archive'[id].snap = disk[id]
            /\ \A k \in 1..Len(order') : order'[k] \in DOMAIN requests'
            /\ \A id \in DOMAIN archive : archive'[id] = archive[id]]_vars
    /\ [][Step("enter") /\ last.op = "enter" => archive' = archive]_vars
    /\ [](pc = "idle" => \A id \in DOMAIN disk : Loadable(disk[id]))

\* C13 witness: a scan has loaded one directory and archived the other one,
\* which failed to load, with the note.
C13_Witness ==
    /\ last.op = "enter"
    /\ pc = "idle"
    /\ \E x, y \in LocalIds :
          /\ x \in DOMAIN requests /\ x \in DOMAIN disk
          /\ y \notin DOMAIN requests /\ y \notin DOMAIN disk
          /\ y \in DOMAIN archive /\ archive[y].note
          /\ archive[y].snap = Corrupt

\* C14: postpone() sends exactly the requests in state postpone, each with
\* postpone_by twice its estimate, and calls the directory only when there
\* is one; each of them has no next_due afterwards and is saved that way;
\* every other request and snapshot is as before.
C14_Postpone ==
    [][Step("postpone") =>
        LET P == {id \in DOMAIN requests : requests[id].state = "postpone"}
        IN /\ last'.called = (P # {})
           /\ last'.postponed = {<<id, 2 * requests[id].estimate>> : id \in P}
           /\ DOMAIN requests' = DOMAIN requests
           /\ DOMAIN disk' = DOMAIN disk
           /\ archive' = archive
           /\ \A id \in P :
                 /\ requests'[id].next_due = None
                 /\ disk'[id] = requests'[id]
           /\ \A id \in DOMAIN requests \ P : requests'[id] = requests[id]
           /\ \A id \in DOMAIN disk \ P : disk'[id] = disk[id]]_vars

\* C14 witness: a postpone() has sent one request with estimate 30 and
\* postpone_by 60 and cleared its due time, and has not sent another
\* request that is pending.
C14_Witness ==
    /\ last.op = "postpone"
    /\ last.called
    /\ \E x, y \in DOMAIN requests :
          /\ last.postponed = {<<x, 60>>}
          /\ requests[x].estimate = 30
          /\ requests[x].next_due = None
          /\ disk[x].next_due = None
          /\ requests[y].state = "pending"

\* C15 as stated: archive() reports every request in an ARCHIVE state with
\* its duration and state, moves its directory from requests/ to archive/
\* and saves it there, and the request is not in the collection afterwards;
\* the other requests are not reported and they and their directories stay
\* as they are.
C15_ArchiveLeavesActiveSet ==
    [][Step("archive") =>
        LET A == {id \in DOMAIN requests : requests[id].state \in ARCHIVE}
        IN /\ last'.called = (A # {})
           /\ last'.endm = {<<id, requests[id].state, duration(requests[id])>> :
                              id \in A}
           /\ \A id \in A :
                 /\ id \notin DOMAIN disk'
                 /\ id \in DOMAIN archive'
                 /\ archive'[id].snap = requests[id]
                 /\ id \notin DOMAIN requests'
           /\ \A id \in DOMAIN requests \ A :
                 /\ id \in DOMAIN requests' /\ requests'[id] = requests[id]
                 /\ id \in DOMAIN disk' /\ disk'[id] = disk[id]]_vars

\* C16: delete(reqid) makes the first request of the collection whose id
\* begins with reqid deleted and saves it, and changes no other request or
\* snapshot; when no id begins with reqid it changes nothing and does not
\* raise.
C16_DeleteFirstMatch ==
    [][Step("delete") =>
        LET px == last'.arg.id
            Begins(id) == /\ Len(px) <= Len(id)
                          /\ \A i \in 1..Len(px) : id[i] = px[i]
            M == {k \in 1..Len(order) : Begins(order[k])}
        IN /\ pc' = "idle"
           /\ DOMAIN requests' = DOMAIN requests
           /\ DOMAIN disk' = DOMAIN disk
           /\ DOMAIN archive' = DOMAIN archive
           /\ IF M = {}
              THEN /\ last'.id = <<>>
                   /\ requests' = requests
                   /\ disk' = disk
                   /\ archive' = archive
              ELSE LET k == CHOOSE k \in M : \A h \in M : k <= h
                       id == order[k]
                   IN /\ last'.id = id
                      /\ requests'[id] =
                            [requests[id] EXCEPT !.state = "deleted"]
                      /\ id \in DOMAIN disk => disk'[id] = requests'[id]
                      /\ id \notin DOMAIN disk =>
                            archive'[id].snap = requests'[id]
                      /\ \A x \in DOMAIN requests \ {id} :
                            requests'[x] = requests[x]
                      /\ \A x \in DOMAIN disk \ {id} : disk'[x] = disk[x]
                      /\ \A x \in DOMAIN archive \ {id} :
                            archive'[x] = archive[x]]_vars

\* C16 witness: delete of a prefix that two ids begin with has deleted the
\* one that comes first in the collection, here the greater id, and the
\* other one is still pending.
C16_Witness ==
    /\ last.op = "delete"
    /\ last.arg.id = <<1>>
    /\ last.id = <<1, 2>>
    /\ <<1, 1>> \in DOMAIN requests
    /\ requests[<<1, 1>>].state = "pending"
    /\ requests[<<1, 2>>].state = "deleted"
    /\ disk[<<1, 2>>].state = "deleted"

\* C17 as stated: the manager and another process never hold the lock at
\* the same time, the manager holds the lock as long as one of its sessions,
\* nested or not, is open, and holds none when no session is open.
C17_LockHeldThroughSession ==
    /\ ~(lockfile /\ other = "in")
    /\ depth >= 1 /\ pc = "idle" => lockfile
    /\ depth = 0 => ~lockfile

\* C18 as stated: a step that changes the collection, a snapshot in
\* requests/ or archive/ ends with the manager holding the lock.
C18_MutationUnderLock ==
    [][requests' # requests \/ order' # order \/ disk' # disk
       \/ archive' # archive => lockfile']_vars

\* C19: a == b holds exactly for requests with the same id; sorted() gives
\* every request once, and of two requests the one placed first has the
\* earlier or the same due time when both have one, is not the one without
\* a due time when only one has one, and has the smaller id when neither
\* has one.
C19_OrderAndEquality ==
    /\ last.op = "eq" => (last.result <=> last.arg.id = last.id)
    /\ last.op = "sorted" =>
          /\ Len(batch) = Len(order)
          /\ \A id \in DOMAIN requests : \E i \in 1..Len(batch) : batch[i] = id
          /\ \A i, j \in 1..Len(batch) :
                i < j =>
                   LET a == batch[i]
                       b == batch[j]
                       da == requests[a].next_due
                       db == requests[b].next_due
                   IN /\ da # None /\ db # None => da.t <= db.t
                      /\ ~(da = None /\ db # None)
                      /\ da = None /\ db = None =>
                            \/ a[1] < b[1]
                            \/ a[1] = b[1] /\ a[2] < b[2]

\* C19 witness: three requests are sorted into the reverse of their order
\* in the collection: the later due time, listed before the earlier one,
\* comes after it, and the request without a due time, listed first,
\* comes last.
C19_Witness ==
    /\ last.op = "sorted"
    /\ Len(order) = 3
    /\ batch = <<order[3], order[2], order[1]>>
    /\ requests[order[1]].next_due = None
    /\ requests[order[2]].next_due = Aware(1)
    /\ requests[order[3]].next_due = Aware(0)

\* C20 as stated: after every step the next_due of every request of the
\* collection is None or has a time zone, also for requests loaded from
\* snapshots without one, and an update_due() that raises leaves the
\* request as it was.
C20_NextDueHasTimezone ==
    [][/\ \A id \in DOMAIN requests' :
             requests'[id].next_due.kind \in {"none", "aware"}
       /\ Step("update_due") /\ pc' = "raised" => requests' = requests]_vars

\* C21 as stated: the request that load() returns after a save() has the
\* state, comment, estimate, the three timestamps with their time zone and
\* the attempts of the saved request, and, once the id of both is read,
\* the same id; the snapshot holds neither the back-reference nor the
\* logger.
C21_RoundTrip ==
    /\ "request.yaml" \in DOMAIN disk =>
          /\ disk["request.yaml"].reqmanager = "None"
          /\ "log" \notin DOMAIN disk["request.yaml"]
    /\ "loaded" \in DOMAIN requests =>
          LET a == requests["original"]
              b == requests["loaded"]
          IN /\ b.state = a.state
             /\ b.comment = a.comment
             /\ b.estimate = a.estimate
             /\ b.next_due = a.next_due
             /\ b.added_at = a.added_at
             /\ b.last_scheduled_at = a.last_scheduled_at
             /\ b.attempts = a.attempts
             /\ a.reqid # <<>> /\ b.reqid # <<>> => a.reqid = b.reqid

\* C22: request.yaml, when it is there, is always a completely written
\* snapshot; it changes only in the rename step of save(), to the complete
\* snapshot of the request being saved; the activity is dumped only when
\* request.yaml is that snapshot.
C22_AtomicSave ==
    /\ []("request.yaml" \in DOMAIN disk =>
             disk["request.yaml"].written = "all")
    /\ [][\/ /\ "request.yaml" \in DOMAIN disk' <=>
                   "request.yaml" \in DOMAIN disk
             /\ "request.yaml" \in DOMAIN disk =>
                   disk'["request.yaml"] = disk["request.yaml"]
          \/ /\ pc = "save_rename"
             /\ "request.yaml" \in DOMAIN disk'
             /\ disk'["request.yaml"] =
                   File("all", request_representer(requests["original"]))]_vars
    /\ [][(\/ "activity" \in DOMAIN disk' /\ "activity" \notin DOMAIN disk
           \/ /\ "activity" \in DOMAIN disk
              /\ disk'["activity"] # disk["activity"])
          => /\ "request.yaml" \in DOMAIN disk
             /\ disk["request.yaml"] =
                   File("all", request_representer(requests["original"]))]_vars

\* C22 witness: a save() was killed after it had written a part of the new
\* snapshot; request.yaml still is the complete snapshot of the request as
\* it was before its last change.
C22_Witness ==
    /\ pc = "down"
    /\ last.op = "kill"
    /\ "tmpfile" \in DOMAIN disk
    /\ disk["tmpfile"].written = "part"
    /\ "request.yaml" \in DOMAIN disk
    /\ disk["request.yaml"].written = "all"
    /\ disk["request.yaml"].data # request_representer(requests["original"])
    /\ disk["tmpfile"].data = request_representer(requests["original"])

\* The instant a time of the response stands for: None, or the hour of the
\* literal, one less when the literal has the offset +01:00.
RemoteDue(time) ==
    IF time.kind = "none" THEN None
    ELSE Aware(IF time.off = "+01:00" THEN time.t - 1 ELSE time.t)

\* C23: schedule() gives every request of the response the due time of the
\* response; when that differs from the due time the request had, the
\* request gets last_scheduled_at = now and is saved, otherwise its
\* last_scheduled_at and its snapshot stay as they were.
C23_ScheduleChangeDetection ==
    [][Step("schedule") =>
        \A id \in DOMAIN requests \cap last'.keys :
            LET due == RemoteDue(last'.response[id])
            IN /\ requests'[id].next_due = due
               /\ IF due # requests[id].next_due
                  THEN /\ requests'[id].last_scheduled_at = Aware(now)
                       /\ disk'[id] = requests'[id]
                  ELSE /\ requests'[id].last_scheduled_at =
                             requests[id].last_scheduled_at
                       /\ disk'[id] = disk[id]]_vars

\* C23 witness: a schedule() at hour 1 has repeated, as 01:00+01:00, the
\* due time 0 that a schedule() at hour 0 had set; the request keeps the
\* stamp of hour 0.
C23_Witness ==
    /\ last.op = "schedule"
    /\ now = 1
    /\ \E id \in DOMAIN requests \cap last.keys :
          /\ last.response[id].kind = "iso"
          /\ last.response[id].off = "+01:00"
          /\ RemoteDue(last.response[id]) = Aware(0)
          /\ requests[id].next_due = Aware(0)
          /\ requests[id].last_scheduled_at = Aware(0)
          /\ disk[id].last_scheduled_at = Aware(0)

\* C24 as stated: every attempt in the history of a request has its finish
\* time and its duration set.
C24_AttemptsFinalized ==
    \A id \in DOMAIN requests :
        \A i \in 1..Len(requests[id].attempts) :
            /\ requests[id].attempts[i].finished
            /\ requests[id].attempts[i].duration

\* C25 as stated: the batch that execute() without run_all_now determines
\* holds, besides requests in state running, only requests whose next_due
\* is set and not later than now.
C25_StartsOnlyWhenDue ==
    [][pc = "idle" /\ pc' = "batch" /\ ~last'.all =>
        \A i \in 1..Len(batch') :
            LET r == requests[batch'[i]]
            IN \/ r.state = "running"
               \/ Truthy(r.next_due) /\ r.next_due.t <= now]_vars

\* C26: the attempts of a request only grow, by one attempt per
\* Request.execute(); without run_all_now no request has more than
\* MAX_RETRIES + 1 attempts; a request beyond the ceiling is not yielded by
\* runnable(), has state retrylimit after the state query and is moved by
\* archive(); a request that is in state tempfail again and again reaches
\* state retrylimit.
OverCeiling(r) == Len(r.attempts) > MAX_RETRIES

C26_RetriesBounded ==
    /\ [](\A id \in DOMAIN requests :
             Len(requests[id].attempts) <= MAX_RETRIES + 1)
    /\ [][\A id \in DOMAIN requests :
             LET old == requests[id].attempts
                 new == requests'[id].attempts
             IN /\ Len(new) \in {Len(old), Len(old) + 1}
                /\ SubSeq(new, 1, Len(old)) = old
                /\ Len(new) > Len(old) =>
                      /\ last'.op = "request_execute"
                      /\ last'.id = id]_vars
    /\ [][last'.op \in {"execute_start", "execute_empty"} =>
             \A id \in DOMAIN requests :
                 OverCeiling(requests[id]) =>
                     /\ requests'[id].state = "retrylimit"
                     /\ \A i \in 1..Len(batch') : batch'[i] # id]_vars
    /\ [][last'.op = "archive" =>
             \A id \in DOMAIN disk :
                 requests[id].state = "retrylimit" =>
                     /\ id \notin DOMAIN disk'
                     /\ id \in DOMAIN archive']_vars
    /\ \A id \in OneId :
          []<>(requests[id].state = "tempfail") =>
              <>(requests[id].state = "retrylimit")

\* The request has failed once more than the ceiling allows, execute() has
\* found it over the ceiling and archive() has moved it.
C26_Witness ==
    /\ \E id \in DOMAIN archive :
          /\ archive[id].snap.state = "retrylimit"
          /\ Len(archive[id].snap.attempts) = MAX_RETRIES + 1
    /\ runs = MaxRuns

\* C27: when postpone_maintenance raises in postpone(), or end_maintenance
\* in archive(), the operation raises, no due date is cleared, no directory
\* is moved and no snapshot is written; the session that follows loads the
\* requests of the spool as they were.
RemoteFailed(name) == last'.op = name /\ pc = "idle" /\ pc' = "raised"

C27_RemoteFailureLeavesState ==
    /\ [][RemoteFailed("postpone") \/ RemoteFailed("archive") =>
             /\ last'.called
             /\ requests' = requests
             /\ disk' = disk
             /\ archive' = archive]_vars
    /\ [][pc = "raised" /\ last.op \in {"postpone", "archive"}
          /\ last'.op = "enter" /\ pc' = "idle" =>
             /\ DOMAIN requests' = DOMAIN disk
             /\ \A id \in DOMAIN disk : requests'[id] = requests[id]]_vars

\* end_maintenance has raised in archive() with a finished request still
\* in the spool, and a postponed request still has its due date.
C27_Witness ==
    /\ pc = "raised"
    /\ last.op = "archive"
    /\ \E id \in DOMAIN disk : disk[id].state \in ARCHIVE
    /\ \E id \in DOMAIN disk :
          disk[id].state = "postpone" /\ Truthy(disk[id].next_due)

====
